---- MODULE Spec2Model ----
(***************************************************************************)
(* A model of forgers: the FORGe rank loader (src/src/forge.rs) and the    *)
(* overlap-resolution engine (src/src/resolve.rs).                         *)
(*                                                                         *)
(* The specifications of the module:                                       *)
(*   Spec          resolve(): the streaming loop over a sorted VCF stream  *)
(*   SpecRerun     Spec, followed by a second resolve() run on its output  *)
(*   SpecExample   resolve() on a given file of a two-sample cohort         *)
(*   SpecFault     Spec, followed by a run on the same input in which a    *)
(*                 read or a write may return an error                     *)
(*   SpecSteps     resolve() on a given file, resolve_cluster() taken one  *)
(*                 loop iteration at a time, every possible step taken     *)
(*   SpecCluster   resolve_cluster() applied to one cluster                *)
(*   SpecConflict  are_conflicting()/are_coupled() applied to two records  *)
(*   SpecCoupled   SpecConflict for a cohort of a single sample            *)
(*   SpecLoad      load_rank(): the loop over the tokens of a rank file    *)
(***************************************************************************)
EXTENDS Integers, Sequences, FiniteSets, TLC

VARIABLES
    \* ---- resolve() (resolve.rs:235-289)
    pc,           \* "idle" | "start" | "loop" | "done" | "cluster" | "resolved";
                  \* "outer" | "inner": inside resolve_cluster (SpecSteps);
                  \* "read_error" | "write_error": resolve() has returned that Err
    ranks,        \* the RegSiteMap returned by load_rank (resolve.rs:245)
    input,        \* the records the reader has returned so far, in order
    pre_record,   \* resolve.rs:247
    cur_record,   \* resolve.rs:246
    pre_range,    \* resolve.rs:250
    cluster,      \* resolve.rs:251
    output,       \* the records written to vcf_writer, in order
    run,          \* 1 for the first run, 2 for the run on the first run's output,
                  \* 0 for a run on a given file (SpecExample),
                  \* 3 for a second run on the first run's input (SpecFault)
    first_input,  \* the first run's input  (kept when the second run starts)
    first_output, \* the first run's output (kept when the second run starts);
                  \* with run = 0, the file the reader reads
    \* ---- resolve_cluster() applied to `cluster` (resolve.rs:38-76)
    sweep,        \* the finished sweep of the last resolve_cluster call
    \* ---- are_conflicting() (resolve.rs:184-188)
    \* and are_coupled() (resolve.rs:126-171), applied to two records
    first, second, conflicting, coupled,
    \* ---- load_rank() (forge.rs:60-131)
    lpc,          \* "idle" | "loop" | "done" | "exit"
    file,         \* the tokens of the rank file (split on tabs), in order
    top,          \* the fraction `top`, as <<numerator, denominator>>
    nof_records,  \* forge.rs:67
    n,            \* forge.rs:73
    smap,         \* forge.rs:74
    r,            \* forge.rs:75
    i,            \* forge.rs:76
    cursor        \* the number of tokens the loop has consumed

resolveVars  == <<pc, ranks, input, pre_record, cur_record, pre_range, cluster, output, run, first_input, first_output, sweep>>
conflictVars == <<first, second, conflicting, coupled>>
loadVars     == <<lpc, file, top, nof_records, n, smap, r, i, cursor>>
vars         == <<resolveVars, conflictVars, loadVars>>

(***************************************************************************)
(* Bounds of the model.                                                    *)
(***************************************************************************)
MaxChrom == 2
MaxPos == 2
MaxRefLen == 2
MaxLen == 4
MaxRankTokens == 1
MaxCluster == 3
MaxFile == 3
MaxSamples == 2
MaxTokens == 3

\* usize::MAX, the rank of an unranked record (resolve.rs:57). TLC's integers
\* are 32 bits wide, so the sentinel is scaled to the largest of them; ranks are
\* only compared with it, never added to it.
UsizeMax == 2147483647

(***************************************************************************)
(* Records and genotypes.                                                  *)
(*                                                                         *)
(* A record carries what the engine reads of a VCFRecord: chromosome       *)
(* (a number standing for the byte string), position, the length of REF    *)
(* and one Genotype per sample of the header, in header order: what        *)
(* unwrap_genotype(parse_genotype(record.genotype(sample, b"GT")), sample) *)
(* yields for it (resolve.rs:132-133).  `line` is the ordinal of the       *)
(* record in the stream it was read from; it gives two records with equal  *)
(* fields their own identities.                                            *)
(*                                                                         *)
(* A Genotype is Missing, Phased(v) or Unphased(v), v holding one          *)
(* alt-presence bit per haplotype copy (resolve.rs:134-177).               *)
(***************************************************************************)
Missing == [tag |-> "Missing", bits |-> <<>>]
Phased(v) == [tag |-> "Phased", bits |-> v]
Unphased(v) == [tag |-> "Unphased", bits |-> v]

\* The genotypes of diploid samples.
Bits == { <<a, b>> : a \in BOOLEAN, b \in BOOLEAN }
AllGT == { Phased(v) : v \in Bits } \cup { Unphased(v) : v \in Bits } \cup { Missing }

\* The genotypes of the records of a stream: phased, carrying an alternate
\* allele on the first copy, on the second, or on both.
StreamGT == { Phased(<<TRUE, FALSE>>), Phased(<<FALSE, TRUE>>), Phased(<<TRUE, TRUE>>) }

Fields(rec) == [chrom |-> rec.chrom, pos |-> rec.pos, reflen |-> rec.reflen, gt |-> rec.gt]

Stamp(rec, line) == [line |-> line, chrom |-> rec.chrom, pos |-> rec.pos, reflen |-> rec.reflen, gt |-> rec.gt]

\* VCFRecord::new(header): an empty record (resolve.rs:246-247).
EmptyRecord == [line |-> 0, chrom |-> 0, pos |-> 0, reflen |-> 0, gt |-> <<>>]

NoRange == [start |-> 0, end |-> 0]

(***************************************************************************)
(* Ranges (resolve.rs:78-119, 208-223).                                    *)
(***************************************************************************)
site_ref_range(record) ==
    [start |-> record.pos, end |-> record.pos + record.reflen - 1]

variant_ref_range(record) ==
    LET start == record.pos
        end   == start + record.reflen - 1
    IN  [start |-> IF start # end THEN start + 1 ELSE start, end |-> end]

is_range_overlapping(r1, r2) ==
    LET left  == IF r2.start < r1.start THEN r2 ELSE r1
        right == IF r2.start < r1.start THEN r1 ELSE r2
    IN  left.start <= right.start /\ right.start <= left.end

Min(a, b) == IF a <= b THEN a ELSE b
Max(a, b) == IF a >= b THEN a ELSE b

\* merge_range keeping the later range only.
merge_range_latest(r1, r2) ==
    [start |-> r2.start, end |-> r2.end]

merge_range(r1, r2) ==
    [start |-> Min(r1.start, r2.start), end |-> Max(r1.end, r2.end)]

(***************************************************************************)
(* The conflict predicate (resolve.rs:121-188).                            *)
(***************************************************************************)
\* is_ref_hom with `any` in the place of `all` (resolve.rs:176).
is_ref_hom_any(genotype) == \E k \in 1..Len(genotype.bits) : ~genotype.bits[k]

\* is_ref_hom(..).unwrap(): the callers pass a present genotype only.
is_ref_hom(genotype) == \A k \in 1..Len(genotype.bits) : ~genotype.bits[k]

\* zip(v1, v2).any(|x| x.0 && x.1): zip stops at the shorter of the two.
ZipAny(v1, v2) == \E k \in 1..Min(Len(v1), Len(v2)) : v1[k] /\ v2[k]

\* One turn of the loop over the samples (resolve.rs:132-168): `ret` says
\* whether the arm returns, `val` what it returns.
SampleArm(gt1, gt2) ==
    CASE gt1 = Missing /\ gt2 = Missing -> [ret |-> TRUE, val |-> TRUE]
      [] gt1 # Missing /\ gt2 = Missing -> [ret |-> TRUE, val |-> ~is_ref_hom(gt1)]
      [] gt1 = Missing /\ gt2 # Missing -> [ret |-> TRUE, val |-> ~is_ref_hom(gt2)]
      [] gt1.tag = "Phased" /\ gt2.tag = "Phased" ->
            [ret |-> ZipAny(gt1.bits, gt2.bits), val |-> TRUE]
      [] OTHER -> [ret |-> TRUE, val |-> ~is_ref_hom(gt1) /\ ~is_ref_hom(gt2)]

RECURSIVE CoupledFrom(_, _, _)
CoupledFrom(record1, record2, k) ==
    IF k > Len(record1.gt)
    THEN FALSE
    ELSE LET arm == SampleArm(record1.gt[k], record2.gt[k])
         IN  IF arm.ret THEN arm.val ELSE CoupledFrom(record1, record2, k + 1)

\* Both records come from one reader, hence carry one header: the panic of
\* resolve.rs:127-129 is not reachable and is left out.
are_coupled(record1, record2) == CoupledFrom(record1, record2, 1)

are_conflicting(a, b) ==
    /\ is_range_overlapping(variant_ref_range(a), variant_ref_range(b))
    /\ are_coupled(a, b)

(***************************************************************************)
(* The rank store (forge.rs).                                              *)
(*                                                                         *)
(* A token of the rank file is what split(',') makes of it: the number of  *)
(* fields, the region (a name, ASCII or not) and the second field, which   *)
(* is a number or, written -1 here, a text that u64 parsing rejects.  A    *)
(* RegSiteMap is a function from the <<region, position>> pairs it holds   *)
(* to their ranks.                                                         *)
(***************************************************************************)
Sites == (1..MaxChrom) \X (1..MaxPos)

ValidToken(site) == [nfields |-> 2, region |-> site[1], ascii |-> TRUE, pos |-> site[2]]

ValidTokens == { ValidToken(site) : site \in Sites }

MalformedTokens ==
    { [nfields |-> 1, region |-> 1, ascii |-> TRUE,  pos |-> 1],
      [nfields |-> 2, region |-> 1, ascii |-> TRUE,  pos |-> -1],
      [nfields |-> 2, region |-> 1, ascii |-> FALSE, pos |-> 1] }

Tokens == ValidTokens \cup MalformedTokens

\* An Option is the empty sequence (None) or a sequence of one value (Some).
None == << >>
Some(v) == << v >>
unwrap_or(opt, default) == IF opt = None THEN default ELSE opt[1]

\* parse_id without the is_ascii test of forge.rs:35.
parse_id_any_region(id) ==
    IF id.nfields # 2 THEN None
    ELSE IF id.pos < 0 THEN None
    ELSE Some(<<id.region, id.pos>>)

parse_id(id) ==
    IF id.nfields # 2 THEN None
    ELSE IF id.pos < 0 THEN None
    ELSE IF id.ascii THEN Some(<<id.region, id.pos>>)
    ELSE None

forge_rank(record, rks) ==
    IF <<record.chrom, record.pos>> \in DOMAIN rks
    THEN Some(rks[<<record.chrom, record.pos>>])
    ELSE None

\* forge.rs:73: (top * nof_records as f64) as usize, top = t[1] / t[2].
TopCount(t, nof) == (t[1] * nof) \div t[2]

EmptyMap == [site \in {} |-> 0]

Insert(map, site, rank) == [s \in (DOMAIN map) \cup {site} |-> IF s = site THEN rank ELSE map[s]]

\* The state of the loop of forge.rs:77-124 before its first turn.
LoadStart == [lpc |-> "loop", smap |-> EmptyMap, r |-> 1, i |-> 0]

\* LoadTurn in which a duplicate does not advance r (forge.rs:117 skipped).
LoadTurnDupFree(st, item, cnt, nof) ==
    LET id == parse_id(item)
    IN  IF id # None
        THEN IF id[1] \in DOMAIN st.smap
             THEN st
             ELSE IF st.i + 1 = cnt
                  THEN [st EXCEPT !.smap = Insert(st.smap, id[1], st.r), !.i = st.i + 1, !.lpc = "done"]
                  ELSE [st EXCEPT !.smap = Insert(st.smap, id[1], st.r), !.i = st.i + 1, !.r = st.r + 1]
        ELSE IF nof < 2
             THEN [st EXCEPT !.lpc = "exit"]
             ELSE [st EXCEPT !.r = st.r + 1]

\* LoadTurn in which a duplicate overwrites the rank of its site and is counted.
LoadTurnOverwrite(st, item, cnt, nof) ==
    LET id == parse_id(item)
    IN  IF id # None
        THEN IF st.i + 1 = cnt
             THEN [st EXCEPT !.smap = Insert(st.smap, id[1], st.r), !.i = st.i + 1, !.lpc = "done"]
             ELSE [st EXCEPT !.smap = Insert(st.smap, id[1], st.r), !.i = st.i + 1, !.r = st.r + 1]
        ELSE IF nof < 2
             THEN [st EXCEPT !.lpc = "exit"]
             ELSE [st EXCEPT !.r = st.r + 1]

\* LoadTurn in which an inserted entry does not advance r.
LoadTurnStuck(st, item, cnt, nof) ==
    LET id == parse_id(item)
    IN  IF id # None
        THEN IF id[1] \in DOMAIN st.smap
             THEN [st EXCEPT !.r = st.r + 1]
             ELSE IF st.i + 1 = cnt
                  THEN [st EXCEPT !.smap = Insert(st.smap, id[1], st.r), !.i = st.i + 1, !.lpc = "done"]
                  ELSE [st EXCEPT !.smap = Insert(st.smap, id[1], st.r), !.i = st.i + 1]
        ELSE IF nof < 2
             THEN [st EXCEPT !.lpc = "exit"]
             ELSE [st EXCEPT !.r = st.r + 1]

\* One turn of the loop (forge.rs:79-118) on `item`, from loop state st;
\* cnt is n (forge.rs:73) and nof is nof_records (forge.rs:67).
LoadTurn(st, item, cnt, nof) ==
    LET id == parse_id(item)
    IN  IF id # None
        THEN IF id[1] \in DOMAIN st.smap
             THEN [st EXCEPT !.r = st.r + 1]
             ELSE IF st.i + 1 = cnt
                  THEN [st EXCEPT !.smap = Insert(st.smap, id[1], st.r), !.i = st.i + 1, !.lpc = "done"]
                  ELSE [st EXCEPT !.smap = Insert(st.smap, id[1], st.r), !.i = st.i + 1, !.r = st.r + 1]
        ELSE IF nof < 2
             THEN [st EXCEPT !.lpc = "exit"]
             ELSE [st EXCEPT !.r = st.r + 1]

RECURSIVE LoadFrom(_, _, _, _)
LoadFrom(st, items, k, cnt) ==
    IF st.lpc # "loop" THEN st
    ELSE IF k > Len(items) THEN [st EXCEPT !.lpc = "done"]
    ELSE LoadFrom(LoadTurn(st, items[k], cnt, Len(items)), items, k + 1, cnt)

\* load_rank(path, top), the file given as its tokens: the final loop state,
\* whose lpc is "done" (smap is returned) or "exit" (the process has exited).
load_rank(items, t) == LoadFrom(LoadStart, items, 1, TopCount(t, Len(items)))

(***************************************************************************)
(* resolve_cluster (resolve.rs:38-76).  Indices are 1-based here.          *)
(***************************************************************************)
RankOf(record, rks) == unwrap_or(forge_rank(record, rks), UsizeMax)

\* Scan with the comparison of resolve.rs:63 turned around.
RECURSIVE ScanWorst(_, _, _, _, _)
ScanWorst(cl, rks, idx, cur, st) ==
    IF cur > Len(cl) THEN st
    ELSE IF are_conflicting(cl[idx], cl[cur])
         THEN LET other_rank == RankOf(cl[cur], rks)
                  claimed    == [st EXCEPT !.processed[cur] = TRUE]
              IN  IF other_rank > st.hi_rank
                  THEN ScanWorst(cl, rks, idx, cur + 1, [claimed EXCEPT !.hi_rank = other_rank, !.hi_idx = cur])
                  ELSE ScanWorst(cl, rks, idx, cur + 1, claimed)
         ELSE ScanWorst(cl, rks, idx, cur + 1, st)

\* Scan testing a candidate against the best record so far, not the anchor.
RECURSIVE ScanAgainstBest(_, _, _, _, _)
ScanAgainstBest(cl, rks, idx, cur, st) ==
    IF cur > Len(cl) THEN st
    ELSE IF are_conflicting(cl[st.hi_idx], cl[cur])
         THEN LET other_rank == RankOf(cl[cur], rks)
                  claimed    == [st EXCEPT !.processed[cur] = TRUE]
              IN  IF other_rank < st.hi_rank
                  THEN ScanAgainstBest(cl, rks, idx, cur + 1, [claimed EXCEPT !.hi_rank = other_rank, !.hi_idx = cur])
                  ELSE ScanAgainstBest(cl, rks, idx, cur + 1, claimed)
         ELSE ScanAgainstBest(cl, rks, idx, cur + 1, st)

\* Scan with `<=` for the `<` of resolve.rs:63.
RECURSIVE ScanLastTie(_, _, _, _, _)
ScanLastTie(cl, rks, idx, cur, st) ==
    IF cur > Len(cl) THEN st
    ELSE IF are_conflicting(cl[idx], cl[cur])
         THEN LET other_rank == RankOf(cl[cur], rks)
                  claimed    == [st EXCEPT !.processed[cur] = TRUE]
              IN  IF other_rank <= st.hi_rank
                  THEN ScanLastTie(cl, rks, idx, cur + 1, [claimed EXCEPT !.hi_rank = other_rank, !.hi_idx = cur])
                  ELSE ScanLastTie(cl, rks, idx, cur + 1, claimed)
         ELSE ScanLastTie(cl, rks, idx, cur + 1, st)

\* The inner loop (resolve.rs:58-68) of anchor idx, from index cur on;
\* st holds processed, hi_idx and hi_rank.
RECURSIVE Scan(_, _, _, _, _)
Scan(cl, rks, idx, cur, st) ==
    IF cur > Len(cl) THEN st
    ELSE IF are_conflicting(cl[idx], cl[cur])
         THEN LET other_rank == RankOf(cl[cur], rks)
                  claimed    == [st EXCEPT !.processed[cur] = TRUE]
              IN  IF other_rank < st.hi_rank
                  THEN Scan(cl, rks, idx, cur + 1, [claimed EXCEPT !.hi_rank = other_rank, !.hi_idx = cur])
                  ELSE Scan(cl, rks, idx, cur + 1, claimed)
         ELSE Scan(cl, rks, idx, cur + 1, st)

\* SweepFrom without the test of resolve.rs:54: every index is an anchor.
RECURSIVE SweepFromAll(_, _, _, _)
SweepFromAll(cl, rks, idx, st) ==
    IF idx > Len(cl) THEN st
    ELSE LET s == Scan(cl, rks, idx, idx + 1,
                       [processed |-> st.processed, hi_idx |-> idx, hi_rank |-> RankOf(cl[idx], rks)])
         IN  SweepFromAll(cl, rks, idx + 1,
                          [processed |-> s.processed,
                           selected  |-> Append(st.selected, s.hi_idx),
                           anchors   |-> Append(st.anchors, idx)])

\* The outer loop (resolve.rs:52-72) from index idx on; st holds processed,
\* selected (in push order) and, for each push, the anchor it was made for.
RECURSIVE SweepFrom(_, _, _, _)
SweepFrom(cl, rks, idx, st) ==
    IF idx > Len(cl) THEN st
    ELSE IF ~st.processed[idx]
         THEN LET s == Scan(cl, rks, idx, idx + 1,
                            [processed |-> st.processed, hi_idx |-> idx, hi_rank |-> RankOf(cl[idx], rks)])
              IN  SweepFrom(cl, rks, idx + 1,
                            [processed |-> s.processed,
                             selected  |-> Append(st.selected, s.hi_idx),
                             anchors   |-> Append(st.anchors, idx)])
         ELSE SweepFrom(cl, rks, idx + 1, st)

Sweep(cl, rks) ==
    SweepFrom(cl, rks, 1, [processed |-> [k \in 1..Len(cl) |-> FALSE], selected |-> <<>>, anchors |-> <<>>])

\* Vec::sort (resolve.rs:73): ascending, equal elements kept.
RECURSIVE InsertSorted(_, _)
InsertSorted(seq, x) ==
    IF seq = <<>> THEN <<x>>
    ELSE IF x < Head(seq) THEN <<x>> \o seq
    ELSE <<Head(seq)>> \o InsertSorted(Tail(seq), x)

RECURSIVE Sort(_)
Sort(seq) == IF seq = <<>> THEN <<>> ELSE InsertSorted(Sort(Tail(seq)), Head(seq))

\* resolve_cluster with the sort of resolve.rs:73 left out.
resolve_cluster_unsorted(cl, rks) == Sweep(cl, rks).selected

resolve_cluster(cl, rks) == Sort(Sweep(cl, rks).selected)

\* write_selected (resolve.rs:194-206), every write succeeding.
write_selected(out, cl, selected) == out \o [k \in 1..Len(selected) |-> cl[selected[k]]]

(***************************************************************************)
(* The inputs of the specifications.                                       *)
(***************************************************************************)
\* The rank tables load_rank(path, 1.0) returns (resolve.rs:245) for the rank
\* files of at most k tokens.
RECURSIVE SeqsUpTo(_, _)
SeqsUpTo(S, k) ==
    IF k = 0 THEN { <<>> }
    ELSE LET shorter == SeqsUpTo(S, k - 1)
         IN  shorter \cup { Append(q, x) : q \in { t \in shorter : Len(t) = k - 1 }, x \in S }

RankTables(items, k) ==
    { load_rank(f, <<1, 1>>).smap : f \in { g \in SeqsUpTo(items, k) : load_rank(g, <<1, 1>>).lpc = "done" } }

\* The records of a stream, before the reader numbers them.
StreamRecords ==
    [chrom : 1..MaxChrom, pos : 1..MaxPos, reflen : 1..MaxRefLen, gt : { <<g>> : g \in StreamGT }]

\* The stream is sorted by CHROM and POS (resolve.rs:233-234).
InOrder(a, b) == a.chrom < b.chrom \/ (a.chrom = b.chrom /\ a.pos <= b.pos)

IdleResolve ==
    /\ pc = "idle" /\ ranks = EmptyMap /\ input = <<>> /\ output = <<>>
    /\ pre_record = EmptyRecord /\ cur_record = EmptyRecord /\ pre_range = NoRange
    /\ cluster = <<>> /\ run = 0 /\ first_input = <<>> /\ first_output = <<>>
    /\ sweep = [cluster |-> <<>>, processed |-> <<>>, selected |-> <<>>, anchors |-> <<>>]

IdleConflict == first = EmptyRecord /\ second = EmptyRecord /\ conflicting = None /\ coupled = None

IdleLoad ==
    /\ lpc = "idle" /\ file = <<>> /\ top = <<1, 1>> /\ nof_records = 0 /\ n = 0
    /\ smap = EmptyMap /\ r = 0 /\ i = 0 /\ cursor = 0

(***************************************************************************)
(* resolve() (resolve.rs:235-289), every read and write succeeding.        *)
(***************************************************************************)
\* What vcf_reader.next_record can return next: in the first run any record
\* that keeps the stream sorted, in the second run the next record of the
\* first run's output.
\* The file a run other than the first reads: the first run's input when it
\* is replayed (run = 3), else the file held in first_output.
Source == IF run = 3 THEN first_input ELSE first_output

Readable ==
    IF run = 1
    THEN { Stamp(rec, Len(input) + 1) : rec \in
             { x \in StreamRecords : Len(input) < MaxLen /\ (input = <<>> \/ InOrder(input[Len(input)], x)) } }
    ELSE IF Len(input) < Len(Source)
         THEN { Stamp(Source[Len(input) + 1], Len(input) + 1) }
         ELSE {}

\* Whether the reader can report the end of the stream now.
AtEnd == run = 1 \/ Len(input) = Len(Source)

Init ==
    /\ pc = "start"
    /\ ranks \in RankTables(ValidTokens \cup MalformedTokens, MaxRankTokens)
    /\ input = <<>> /\ output = <<>>
    /\ pre_record = EmptyRecord /\ cur_record = EmptyRecord /\ pre_range = NoRange
    /\ cluster = <<>> /\ run = 1 /\ first_input = <<>> /\ first_output = <<>>
    /\ sweep = [cluster |-> <<>>, processed |-> <<>>, selected |-> <<>>, anchors |-> <<>>]
    /\ IdleConflict /\ IdleLoad

\* resolve.rs:248-251, a first record fetched.
FetchFirst ==
    /\ pc = "start"
    /\ \E rec \in Readable :
        /\ input' = Append(input, rec)
        /\ pre_record' = rec
        /\ pre_range' = site_ref_range(rec)
    /\ cluster' = <<>>
    /\ pc' = "loop"
    /\ UNCHANGED <<ranks, cur_record, output, run, first_input, first_output, sweep, conflictVars, loadVars>>

\* resolve.rs:248-249 and 288, the stream is empty.
FetchNone ==
    /\ pc = "start" /\ AtEnd
    /\ pc' = "done"
    /\ UNCHANGED <<ranks, input, pre_record, cur_record, pre_range, cluster, output, run, first_input, first_output, sweep, conflictVars, loadVars>>

Joins(rec) ==
    /\ pre_record.chrom = rec.chrom
    /\ is_range_overlapping(pre_range, site_ref_range(rec))

\* resolve.rs:253-267: the record fetched joins the pending cluster.
FetchJoin ==
    /\ pc = "loop"
    /\ \E rec \in Readable :
        /\ Joins(rec)
        /\ input' = Append(input, rec)
        /\ cluster' = Append(IF cluster = <<>> THEN <<pre_record>> ELSE cluster, rec)
        /\ pre_range' = merge_range(pre_range, site_ref_range(rec))
        /\ pre_record' = rec
    /\ cur_record' = pre_record
    /\ UNCHANGED <<pc, ranks, output, run, first_input, first_output, sweep, conflictVars, loadVars>>

\* FetchBreakCluster with the cluster.clear() of resolve.rs:276 left out.
FetchBreakClusterKeep ==
    /\ pc = "loop" /\ cluster # <<>>
    /\ \E rec \in Readable :
        /\ ~Joins(rec)
        /\ input' = Append(input, rec)
        /\ pre_range' = site_ref_range(rec)
        /\ pre_record' = rec
    /\ LET selected == resolve_cluster(cluster, ranks)
       IN  /\ output' = write_selected(output, cluster, selected)
           /\ sweep' = [cluster |-> cluster] @@ Sweep(cluster, ranks)
    /\ cluster' = cluster
    /\ cur_record' = pre_record
    /\ UNCHANGED <<pc, ranks, run, first_input, first_output, conflictVars, loadVars>>

\* resolve.rs:253-258 and 269-281: a break with a pending cluster.
FetchBreakCluster ==
    /\ pc = "loop" /\ cluster # <<>>
    /\ \E rec \in Readable :
        /\ ~Joins(rec)
        /\ input' = Append(input, rec)
        /\ pre_range' = site_ref_range(rec)
        /\ pre_record' = rec
    /\ LET selected == resolve_cluster(cluster, ranks)
       IN  /\ output' = write_selected(output, cluster, selected)
           /\ sweep' = [cluster |-> cluster] @@ Sweep(cluster, ranks)
    /\ cluster' = <<>>
    /\ cur_record' = pre_record
    /\ UNCHANGED <<pc, ranks, run, first_input, first_output, conflictVars, loadVars>>

\* FetchBreakSingle writing the record just read instead of the held one.
FetchBreakSingleNew ==
    /\ pc = "loop" /\ cluster = <<>>
    /\ \E rec \in Readable :
        /\ ~Joins(rec)
        /\ input' = Append(input, rec)
        /\ pre_range' = site_ref_range(rec)
        /\ pre_record' = rec
        /\ output' = Append(output, rec)
    /\ cur_record' = pre_record
    /\ UNCHANGED <<pc, ranks, cluster, run, first_input, first_output, sweep, conflictVars, loadVars>>

\* resolve.rs:253-258 and 277-281: a break with no pending cluster.
FetchBreakSingle ==
    /\ pc = "loop" /\ cluster = <<>>
    /\ \E rec \in Readable :
        /\ ~Joins(rec)
        /\ input' = Append(input, rec)
        /\ pre_range' = site_ref_range(rec)
        /\ pre_record' = rec
    /\ output' = Append(output, pre_record)
    /\ cur_record' = pre_record
    /\ UNCHANGED <<pc, ranks, cluster, run, first_input, first_output, sweep, conflictVars, loadVars>>

\* FetchEnd asking the reader again instead of leaving the loop.
FetchEndAgain ==
    /\ pc = "loop" /\ AtEnd
    /\ pc' = "loop"
    /\ UNCHANGED <<ranks, input, pre_record, cur_record, pre_range, cluster, output, run, first_input, first_output, sweep, conflictVars, loadVars>>

\* resolve.rs:253 and 282-288: the end of the stream.
FetchEnd ==
    /\ pc = "loop" /\ AtEnd
    /\ output' = Append(output, pre_record)
    /\ pc' = "done"
    /\ UNCHANGED <<ranks, input, pre_record, cur_record, pre_range, cluster, run, first_input, first_output, sweep, conflictVars, loadVars>>

Next ==
    \/ FetchFirst
    \/ FetchNone
    \/ FetchJoin
    \/ FetchBreakCluster
    \/ FetchBreakSingle
    \/ FetchEnd

Spec == Init /\ [][Next]_vars

\* A second resolve() run, with the same rank table, on what the first wrote.
Rerun ==
    /\ pc = "done" /\ run = 1
    /\ run' = 2
    /\ first_input' = input
    /\ first_output' = output
    /\ input' = <<>> /\ output' = <<>>
    /\ pre_record' = EmptyRecord /\ cur_record' = EmptyRecord /\ pre_range' = NoRange
    /\ cluster' = <<>>
    /\ pc' = "start"
    /\ UNCHANGED <<ranks, sweep, conflictVars, loadVars>>

NextRerun == Next \/ Rerun

SpecRerun == Init /\ [][NextRerun]_vars

(***************************************************************************)
(* Claims about resolve().                                                 *)
(***************************************************************************)
Written(rec) == \E m \in 1..Len(output) : output[m] = rec

EndsWith(seq, tail) ==
    /\ Len(seq) >= Len(tail)
    /\ SubSeq(seq, Len(seq) - Len(tail) + 1, Len(seq)) = tail

Content(seq) == [k \in 1..Len(seq) |-> Fields(seq[k])]

\* C1 (as claimed): when the reader is exhausted, a pending cluster is resolved
\* by resolve_cluster and its selected records are the last ones written; with
\* only a single held record, that record is the last one written.
C1_EndOfStreamFlush ==
    (pc = "done" /\ input # <<>>) =>
        IF cluster # <<>>
        THEN EndsWith(output, write_selected(<<>>, cluster, resolve_cluster(cluster, ranks)))
        ELSE EndsWith(output, <<pre_record>>)

\* C2 (as claimed): after the run every input record is written, or it
\* conflicts with a written record whose rank is less than or equal to its own.
C2_Coverage ==
    pc = "done" =>
        \A k \in 1..Len(input) :
            \/ Written(input[k])
            \/ \E j \in 1..Len(input) :
                /\ Written(input[j])
                /\ are_conflicting(input[k], input[j])
                /\ RankOf(input[j], ranks) <= RankOf(input[k], ranks)

\* C4 (as claimed): a second run on the first run's output, with the same rank
\* table, writes the same record sequence as the first run wrote.
C4_Idempotence ==
    (run = 2 /\ pc = "done") => Content(output) = Content(first_output)

\* C5: the records written are records of the input, and of two different
\* records the one written first is the one that came first in the input.
C5_OrderPreserved ==
    /\ \A a \in 1..Len(output) :
        /\ output[a].line \in 1..Len(input)
        /\ output[a] = input[output[a].line]
    /\ \A a \in 1..Len(output) : \A b \in 1..Len(output) :
        (a < b /\ output[a].line # output[b].line) => output[a].line < output[b].line

\* C5 witness: a run has ended in which a cluster was resolved whose selected
\* indices were pushed out of order, and pass-through records were written too.
C5_Witness ==
    /\ pc = "done"
    /\ Len(sweep.selected) >= 2
    /\ sweep.selected # Sort(sweep.selected)
    /\ Len(output) >= 3

(***************************************************************************)
(* SpecCluster: resolve_cluster applied to one cluster.                    *)
(***************************************************************************)
ClusterRecords ==
    [chrom : {1}, pos : 1..MaxPos, reflen : 1..MaxRefLen, gt : { <<g>> : g \in StreamGT }]

ClusterTokens == { ValidToken(<<1, p>>) : p \in 1..MaxPos } \cup MalformedTokens

\* The cluster starts from one held record, as after resolve.rs:249-250.  The
\* first record is at position 1: a cluster that starts further on is one of
\* these moved along the chromosome, the rank tables covering every position.
InitCluster ==
    /\ pc = "cluster"
    /\ ranks \in RankTables(ClusterTokens, MaxRankTokens)
    /\ \E x \in { y \in ClusterRecords : y.pos = 1 } :
        /\ pre_record = Stamp(x, 1)
        /\ pre_range = site_ref_range(x)
    /\ cluster = <<>>
    /\ input = <<>> /\ output = <<>>
    /\ cur_record = EmptyRecord
    /\ run = 0 /\ first_input = <<>> /\ first_output = <<>>
    /\ sweep = [cluster |-> <<>>, processed |-> <<>>, selected |-> <<>>, anchors |-> <<>>]
    /\ IdleConflict /\ IdleLoad

\* resolve.rs:256-267: the next record of the sorted stream joins the cluster.
JoinCluster ==
    /\ pc = "cluster"
    /\ Len(cluster) < MaxCluster
    /\ \E x \in ClusterRecords :
        LET rec == Stamp(x, pre_record.line + 1)
        IN  /\ InOrder(pre_record, rec)
            /\ Joins(rec)
            /\ cluster' = Append(IF cluster = <<>> THEN <<pre_record>> ELSE cluster, rec)
            /\ pre_range' = merge_range(pre_range, site_ref_range(rec))
            /\ pre_record' = rec
    /\ UNCHANGED <<pc, ranks, input, output, cur_record, run, first_input, first_output, sweep, conflictVars, loadVars>>

\* resolve.rs:269-275: the cluster is closed, swept (resolve.rs:52-72), the
\* selection sorted (resolve.rs:73) and written.
ResolveCluster ==
    /\ pc = "cluster"
    /\ cluster # <<>>
    /\ LET sw == Sweep(cluster, ranks)
       IN  /\ sweep' = [cluster |-> cluster] @@ sw
           /\ output' = write_selected(output, cluster, Sort(sw.selected))
    /\ pc' = "resolved"
    /\ UNCHANGED <<ranks, input, pre_record, cur_record, pre_range, cluster, run, first_input, first_output, conflictVars, loadVars>>

NextCluster == JoinCluster \/ ResolveCluster

SpecCluster == InitCluster /\ [][NextCluster]_vars

\* The conflict group of anchor a: a and the later indices conflicting with a.
Group(cl, a) == {a} \cup { k \in (a + 1)..Len(cl) : are_conflicting(cl[a], cl[k]) }

Selection(sw) == { sw.selected[k] : k \in 1..Len(sw.selected) }

\* C3 (as claimed): for every anchor of the sweep, exactly one member of its
\* conflict group is in the selection resolve_cluster returns.
C3_OnePerGroup ==
    pc = "resolved" =>
        \A k \in 1..Len(sweep.anchors) :
            Cardinality(Group(sweep.cluster, sweep.anchors[k]) \cap Selection(sweep)) = 1

\* C6: the index selected for an anchor is a member of the anchor's conflict
\* group whose rank is the least of the group; a record without an entry in the
\* rank table has rank usize::MAX, and every rank of the table is below it.
C6_RankMonotone ==
    pc = "resolved" =>
        /\ \A k \in 1..Len(sweep.anchors) :
            LET grp == Group(sweep.cluster, sweep.anchors[k])
                hi  == sweep.selected[k]
                rhi == unwrap_or(forge_rank(sweep.cluster[hi], ranks), UsizeMax)
            IN  /\ hi \in grp
                /\ \A m \in grp :
                    rhi <= unwrap_or(forge_rank(sweep.cluster[m], ranks), UsizeMax)
        /\ \A s \in DOMAIN ranks : ranks[s] < UsizeMax
        /\ \A k \in 1..Len(cluster) :
            forge_rank(cluster[k], ranks) = None => RankOf(cluster[k], ranks) = UsizeMax

\* C6 witness: a sweep in which an anchor lost to a later, better-ranked member
\* of its group while another member of that group was unranked.
C6_Witness ==
    /\ pc = "resolved"
    /\ \E k \in 1..Len(sweep.anchors) :
        LET grp == Group(sweep.cluster, sweep.anchors[k])
        IN  /\ Cardinality(grp) >= 3
            /\ sweep.selected[k] # sweep.anchors[k]
            /\ \E m \in grp : forge_rank(sweep.cluster[m], ranks) = None

(***************************************************************************)
(* SpecConflict and SpecCoupled: are_conflicting and are_coupled applied   *)
(* to two records of one header; SpecCoupled takes a single-sample cohort. *)
(***************************************************************************)
\* The GT columns of a cohort of k samples.
RECURSIVE Columns(_)
Columns(k) ==
    IF k = 0 THEN { <<>> }
    ELSE { Append(q, g) : q \in Columns(k - 1), g \in AllGT }

CohortRecords(k) ==
    [line : {0}, chrom : {1}, pos : 1..MaxPos, reflen : 1..MaxRefLen, gt : Columns(k)]

InitPair(cohorts) ==
    /\ \E k \in cohorts :
        /\ first \in CohortRecords(k)
        /\ second \in CohortRecords(k)
    /\ conflicting = None /\ coupled = None
    /\ IdleResolve /\ IdleLoad

InitConflict == InitPair(1..MaxSamples)

InitCoupled == InitPair({1})

\* are_conflicting(first, second), resolve.rs:184-188.
CheckConflicting ==
    /\ conflicting = None
    /\ conflicting' = Some(are_conflicting(first, second))
    /\ UNCHANGED <<first, second, coupled, resolveVars, loadVars>>

\* are_coupled(first, second), resolve.rs:126-171.
CheckCoupled ==
    /\ coupled = None
    /\ coupled' = Some(are_coupled(first, second))
    /\ UNCHANGED <<first, second, conflicting, resolveVars, loadVars>>

NextConflict ==
    \/ CheckConflicting
    \/ CheckCoupled

SpecConflict == InitConflict /\ [][NextConflict]_vars

SpecCoupled == InitCoupled /\ [][NextConflict]_vars

\* The per-sample coupling rule as the table of the specification states it.
HasAlt(g) == \E k \in 1..Len(g.bits) : g.bits[k]

TableCoupled(g1, g2) ==
    IF g1.tag = "Missing" /\ g2.tag = "Missing" THEN TRUE
    ELSE IF g1.tag = "Missing" THEN HasAlt(g2)
    ELSE IF g2.tag = "Missing" THEN HasAlt(g1)
    ELSE IF g1.tag = "Phased" /\ g2.tag = "Phased"
         THEN \E k \in 1..Len(g1.bits) : k <= Len(g2.bits) /\ g1.bits[k] /\ g2.bits[k]
    ELSE HasAlt(g1) /\ HasAlt(g2)

SampleCoupled(k) == TableCoupled(first.gt[k], second.gt[k])

VariantOverlap ==
    LET a == variant_ref_range(first)
        b == variant_ref_range(second)
    IN  Max(a.start, b.start) <= Min(a.end, b.end)

\* C7 (as claimed): are_conflicting is true exactly when the variant ranges
\* overlap and some sample of the cohort, at any position, is coupled by the
\* per-sample rule.
C7_ConflictingIffSomeSampleCoupled ==
    conflicting # None =>
        (conflicting[1] <=> (VariantOverlap /\ \E k \in 1..Len(first.gt) : SampleCoupled(k)))

\* C8 (as claimed): two records with overlapping variant ranges are conflicting
\* whenever some sample has one genotype Missing and the other present and not
\* homozygous-reference, whatever the other samples and that sample's position.
C8_MissingFallback ==
    (/\ conflicting # None
     /\ VariantOverlap
     /\ \E k \in 1..Len(first.gt) :
            LET g1 == first.gt[k]
                g2 == second.gt[k]
            IN  \/ g1.tag = "Missing" /\ g2.tag # "Missing" /\ HasAlt(g2)
                \/ g2.tag = "Missing" /\ g1.tag # "Missing" /\ HasAlt(g1))
        => conflicting[1]

\* C9: for a single-sample cohort are_coupled returns what the per-sample
\* coupling table gives for the two genotypes of that sample.
C9_CouplingTable ==
    (coupled # None /\ Len(first.gt) = 1) => (coupled[1] <=> SampleCoupled(1))

\* C9 witness: are_coupled has returned false for a single sample whose two
\* phased genotypes carry their alternate alleles on different copies.
C9_Witness ==
    /\ coupled = Some(FALSE)
    /\ Len(first.gt) = 1
    /\ first.gt[1] = Phased(<<TRUE, FALSE>>)
    /\ second.gt[1] = Phased(<<FALSE, TRUE>>)

(***************************************************************************)
(* SpecLoad: load_rank(path, top), one action per turn of its loop.        *)
(***************************************************************************)
Tops == { <<0, 1>>, <<1, 2>>, <<1, 1>> }

\* forge.rs:64-76.
InitLoad ==
    /\ file \in SeqsUpTo(Tokens, MaxTokens)
    /\ top \in Tops
    /\ nof_records = Len(file)
    /\ n = TopCount(top, Len(file))
    /\ smap = EmptyMap /\ r = 1 /\ i = 0
    /\ cursor = 0
    /\ lpc = "loop"
    /\ IdleResolve /\ IdleConflict

\* forge.rs:77-118: the loop takes the next token.
LoadItem ==
    /\ lpc = "loop" /\ cursor < Len(file)
    /\ LET st == LoadTurn([lpc |-> lpc, smap |-> smap, r |-> r, i |-> i], file[cursor + 1], n, nof_records)
       IN  /\ lpc' = st.lpc
           /\ smap' = st.smap
           /\ r' = st.r
           /\ i' = st.i
    /\ cursor' = cursor + 1
    /\ UNCHANGED <<file, top, nof_records, n, resolveVars, conflictVars>>

\* forge.rs:77 and 126-130: the tokens are exhausted, smap is returned.
LoadEnd ==
    /\ lpc = "loop" /\ cursor = Len(file)
    /\ lpc' = "done"
    /\ UNCHANGED <<file, top, nof_records, n, smap, r, i, cursor, resolveVars, conflictVars>>

NextLoad ==
    \/ LoadItem
    \/ LoadEnd

SpecLoad == InitLoad /\ [][NextLoad]_vars

\* The valid entries of the file and where each occurs first.
EntryAt(k) == parse_id(file[k])

Entries == { EntryAt(k)[1] : k \in { j \in 1..Len(file) : EntryAt(j) # None } }

FirstIndex(site) ==
    CHOOSE k \in 1..Len(file) :
        /\ EntryAt(k) = Some(site)
        /\ \A j \in 1..(k - 1) : EntryAt(j) # Some(site)

\* The tokens chr1,100 / chr1,100 / chr1,200 of the rank-file example, with
\* positions 1 and 2 standing for 100 and 200.
ExampleFile == << ValidToken(<<1, 1>>), ValidToken(<<1, 1>>), ValidToken(<<1, 2>>) >>

\* C10 (as claimed): with topFraction 1.0 the k-th distinct valid entry in file
\* order has rank k, a duplicate consuming no rank number; the example file
\* gives {chr1: {100: 1, 200: 2}}.
C10_SequentialRanks ==
    (lpc = "done" /\ top = <<1, 1>>) =>
        /\ \A site \in DOMAIN smap :
            smap[site] = Cardinality({ t \in Entries : FirstIndex(t) <= FirstIndex(site) })
        /\ file = ExampleFile => smap = (<<1, 1>> :> 1) @@ (<<1, 2>> :> 2)

\* C10 (amended): the rank of a loaded entry is the 1-based position in the
\* file of the token it first occurs in, so duplicates and malformed tokens
\* consume rank numbers; the example file gives {chr1: {100: 1, 200: 3}}.
C10_RankIsTokenPosition ==
    /\ \A site \in DOMAIN smap : site \in Entries /\ smap[site] = FirstIndex(site)
    /\ (lpc = "done" /\ top = <<1, 1>> /\ file = ExampleFile)
            => smap = (<<1, 1>> :> 1) @@ (<<1, 2>> :> 3)

\* C10 witness: the example file has been loaded with topFraction 1.0.
C10_Witness ==
    /\ lpc = "done" /\ top = <<1, 1>> /\ file = ExampleFile
    /\ DOMAIN smap = { <<1, 1>>, <<1, 2>> }

\* C11 (as claimed): the table never holds more than n distinct entries, and
\* once n distinct entries have been inserted the loop has stopped, for every
\* topFraction of Tops, 0 and 1 included.
C11_TopFractionBound ==
    /\ Cardinality(DOMAIN smap) <= n
    /\ Cardinality(DOMAIN smap) = n => (lpc # "loop" \/ cursor = 0)

(***************************************************************************)
(* Cluster formation, stated on the input alone.                           *)
(***************************************************************************)
SetMin(S) == CHOOSE x \in S : \A y \in S : x <= y
SetMax(S) == CHOOSE x \in S : \A y \in S : x >= y

SiteStart(rec) == rec.pos
SiteEnd(rec) == rec.pos + rec.reflen - 1

\* The range [min start, max end] of the records a..b of seq.
SpanOf(seq, a, b) ==
    [start |-> SetMin({ SiteStart(seq[j]) : j \in a..b }),
     end   |-> SetMax({ SiteEnd(seq[j]) : j \in a..b })]

\* Inclusive interval overlap: max(start1, start2) <= min(end1, end2).
Overlap(r1, r2) == SetMax({r1.start, r2.start}) <= SetMin({r1.end, r2.end})

\* The index at which the group of record k of seq starts: record k continues
\* the group of record k - 1 iff it has the chromosome of record k - 1 and its
\* site range overlaps the range spanned by that group so far.
RECURSIVE RunStart(_, _)
RunStart(seq, k) ==
    IF k = 1 THEN 1
    ELSE LET s == RunStart(seq, k - 1)
         IN  IF /\ seq[k].chrom = seq[k - 1].chrom
                /\ Overlap(SpanOf(seq, s, k - 1), SpanOf(seq, k, k))
             THEN s
             ELSE k

\* cl is records a..b of the input, two or more, of one chromosome, each after
\* the first overlapping the span of the earlier ones, and a starts a group.
IsRunOfInput(cl) ==
    LET a == cl[1].line
        b == cl[Len(cl)].line
    IN  /\ Len(cl) >= 2
        /\ a >= 1 /\ b <= Len(input) /\ b = a + Len(cl) - 1
        /\ \A k \in 1..Len(cl) : cl[k] = input[a + k - 1] /\ cl[k].chrom = cl[1].chrom
        /\ \A k \in 2..Len(cl) : Overlap(SpanOf(cl, 1, k - 1), SpanOf(cl, k, k))
        /\ RunStart(input, a) = a

\* C12: the cluster handed to resolve_cluster is a run of two or more
\* consecutive input records of one chromosome, each overlapping the merged
\* range of the earlier members, that neither the record before it nor the
\* record after it continues; the pending cluster is empty exactly when the
\* held record started a group, and is otherwise the group of the held record.
C12_ClusterFormation ==
    /\ sweep.cluster # <<>> =>
        /\ IsRunOfInput(sweep.cluster)
        /\ sweep.cluster[Len(sweep.cluster)].line < Len(input)
        /\ LET after == sweep.cluster[Len(sweep.cluster)].line + 1
           IN  RunStart(input, after) = after
    /\ pc = "loop" =>
        /\ cluster = <<>> <=> RunStart(input, Len(input)) = Len(input)
        /\ cluster # <<>> =>
            /\ IsRunOfInput(cluster)
            /\ cluster[Len(cluster)].line = Len(input)
            /\ pre_range = SpanOf(cluster, 1, Len(cluster))

\* C12 witness: a cluster of three records was handed over at a chromosome
\* change, whose third record overlaps the merged range of the first two but
\* not the site range of the second.
C12_Witness ==
    /\ Len(sweep.cluster) = 3
    /\ ~Overlap(SpanOf(sweep.cluster, 2, 2), SpanOf(sweep.cluster, 3, 3))
    /\ Overlap(SpanOf(sweep.cluster, 1, 2), SpanOf(sweep.cluster, 3, 3))
    /\ pre_record.chrom # sweep.cluster[1].chrom
    /\ pre_record.line = sweep.cluster[3].line + 1

\* Record k of the input is isolated: it starts a group and so does record k + 1.
Isolated(k) ==
    /\ k + 1 <= Len(input)
    /\ RunStart(input, k) = k
    /\ RunStart(input, k + 1) = k + 1

InCluster(cl, k) == \E m \in 1..Len(cl) : cl[m].line = k

\* C13: an isolated record is written exactly once and as it was read, it is
\* in no cluster, pending or handed to resolve_cluster; and the record read
\* last is the held record, the held range being its site range when it
\* started a group.
C13_IsolatedPassThrough ==
    /\ \A k \in 1..Len(input) :
        Isolated(k) =>
            /\ Cardinality({ m \in 1..Len(output) : output[m].line = k }) = 1
            /\ \A m \in 1..Len(output) : output[m].line = k => output[m] = input[k]
            /\ ~InCluster(sweep.cluster, k)
            /\ ~InCluster(cluster, k)
    /\ pc = "loop" =>
        /\ pre_record = input[Len(input)]
        /\ RunStart(input, Len(input)) = Len(input) =>
            /\ cluster = <<>>
            /\ pre_range = SpanOf(input, Len(input), Len(input))

\* C13 witness: an isolated record that broke from the record before it by
\* no overlap on the same chromosome, and from which the next record broke by
\* a chromosome change, has been written, the next record being held.
C13_Witness ==
    /\ pc = "loop"
    /\ \E k \in 2..Len(input) :
        /\ Isolated(k)
        /\ k + 1 = Len(input)
        /\ input[k - 1].chrom = input[k].chrom
        /\ input[k + 1].chrom # input[k].chrom
        /\ output[Len(output)] = input[k]
        /\ pre_record = input[k + 1]

\* The records of the last cluster handed to resolve_cluster, as written.
FlushedBlock == write_selected(<<>>, sweep.cluster, Sort(sweep.selected))

\* seq holds blk as the contiguous part that starts after its first p entries.
BlockAt(seq, blk, p) ==
    /\ p + Len(blk) <= Len(seq)
    /\ SubSeq(seq, p + 1, p + Len(blk)) = blk

\* C14: the selected records of a cluster handed to resolve_cluster are in the
\* output as one block, after every record read before the cluster and before
\* every record read after it, and the block ends the output while the record
\* that broke the cluster is held as the last one read; the cluster buffer is then
\* empty, and at any time it holds records of the current group only, none of
\* which is written yet.
C14_FlushDiscipline ==
    /\ sweep.cluster # <<>> =>
        LET a == sweep.cluster[1].line
            b == sweep.cluster[Len(sweep.cluster)].line
        IN  /\ \E p \in 0..Len(output) :
                /\ BlockAt(output, FlushedBlock, p)
                /\ \A m \in 1..p : output[m].line < a
                /\ \A m \in (p + Len(FlushedBlock) + 1)..Len(output) : output[m].line > b
            /\ (pc = "loop" /\ Len(input) = b + 1) => (EndsWith(output, FlushedBlock) /\ cluster = <<>>)
    /\ pc = "loop" =>
        LET s == RunStart(input, Len(input))
        IN  /\ \A m \in 1..Len(output) : output[m].line < s
            /\ \A m \in 1..Len(cluster) : cluster[m].line >= s

\* C14 witness: a cluster was flushed with two or more records written, and a
\* record read after it has been written behind them while the loop goes on.
C14_Witness ==
    /\ Len(FlushedBlock) >= 2
    /\ \E m \in 1..Len(output) : output[m].line > sweep.cluster[Len(sweep.cluster)].line
    /\ pc = "loop"

(***************************************************************************)
(* SpecExample: resolve() on a given file of a two-sample cohort with      *)
(* phased genotypes 0|0 and 1|0.                                           *)
(***************************************************************************)
ExampleGT == { Phased(<<FALSE, FALSE>>), Phased(<<TRUE, FALSE>>) }

ExampleRecords ==
    [chrom : 1..MaxChrom, pos : 1..MaxPos, reflen : 1..MaxRefLen,
     gt : { <<g1, g2>> : g1 \in ExampleGT, g2 \in ExampleGT }]

\* The sorted files of up to k records.
ExampleFiles(k) ==
    { f \in SeqsUpTo(ExampleRecords, k) : \A j \in 1..(Len(f) - 1) : InOrder(f[j], f[j + 1]) }

\* resolve.rs:245-247: the rank table is loaded, the reader is at the start of
\* the file.
InitExample ==
    /\ pc = "start"
    /\ ranks \in RankTables(ValidTokens \cup MalformedTokens, MaxRankTokens)
    /\ run = 0
    /\ first_output \in ExampleFiles(MaxFile)
    /\ first_input = <<>>
    /\ input = <<>> /\ output = <<>>
    /\ pre_record = EmptyRecord /\ cur_record = EmptyRecord /\ pre_range = NoRange
    /\ cluster = <<>>
    /\ sweep = [cluster |-> <<>>, processed |-> <<>>, selected |-> <<>>, anchors |-> <<>>]
    /\ IdleConflict /\ IdleLoad

SpecExample == InitExample /\ [][Next]_vars

\* The records of the pass-through example, position 1 standing for 100 and a
\* REF of two bases for GTTT: A has sample 1 = 0|0 and sample 2 = 1|0, B has
\* sample 1 = 1|0 and sample 2 = 0|0.
PassA == [chrom |-> 1, pos |-> 1, reflen |-> 2,
          gt |-> << Phased(<<FALSE, FALSE>>), Phased(<<TRUE, FALSE>>) >>]
PassB == [chrom |-> 1, pos |-> 1, reflen |-> 1,
          gt |-> << Phased(<<TRUE, FALSE>>), Phased(<<FALSE, FALSE>>) >>]

\* C15 (as claimed): the variant range of a record is its site range with the
\* start advanced by one when the site range is longer than one base; the
\* records A and B of the example are not conflicting, and a run of resolve()
\* on the file of A and B writes both.
C15_VariantRangePassThrough ==
    /\ \A k \in 1..Len(input) :
        variant_ref_range(input[k]) =
            [start |-> IF SiteEnd(input[k]) > SiteStart(input[k])
                       THEN SiteStart(input[k]) + 1 ELSE SiteStart(input[k]),
             end   |-> SiteEnd(input[k])]
    /\ (pc = "done" /\ Content(input) = <<PassA, PassB>>) =>
        /\ ~are_conflicting(input[1], input[2])
        /\ Written(input[1])
        /\ Written(input[2])

\* The records of the conflict example, position 1 standing for 200: both are
\* single-base records of site chr1:1 with sample 1 = 1|0; the genotype of
\* sample 2 tells A (0|0) from B (1|0).
ConflictA == [chrom |-> 1, pos |-> 1, reflen |-> 1,
              gt |-> << Phased(<<TRUE, FALSE>>), Phased(<<FALSE, FALSE>>) >>]
ConflictB == [chrom |-> 1, pos |-> 1, reflen |-> 1,
              gt |-> << Phased(<<TRUE, FALSE>>), Phased(<<TRUE, FALSE>>) >>]

NextIsDuplicate ==
    /\ lpc = "loop" /\ cursor < Len(file)
    /\ EntryAt(cursor + 1) # None
    /\ EntryAt(cursor + 1)[1] \in DOMAIN smap

\* C17: a rank, once inserted for a (chromosome, position) pair, is never
\* changed by a later token; a token repeating a pair of the table leaves the
\* table and the count i of distinct entries unchanged, and after every step
\* i is the number of entries of the table.
C17_DuplicateKeepsFirst ==
    [][/\ \A s \in DOMAIN smap : s \in DOMAIN smap' /\ smap'[s] = smap[s]
       /\ NextIsDuplicate => (smap' = smap /\ i' = i)
       /\ i' = Cardinality(DOMAIN smap')]_vars

\* C17 witness: a file whose second token repeats the first and whose third
\* is another entry has been loaded: the first rank is kept, two entries count.
C17_Witness ==
    /\ lpc = "done" /\ cursor = 3 /\ i = 2
    /\ EntryAt(1) # None /\ EntryAt(2) = EntryAt(1)
    /\ EntryAt(3) # None /\ EntryAt(3) # EntryAt(1)
    /\ smap[EntryAt(1)[1]] = 1
    /\ EntryAt(3)[1] \in DOMAIN smap

\* A token is malformed when it does not split into exactly two fields, when
\* its second field is not a non-negative integer (pos = -1 in the model), or
\* when its chromosome is not ASCII.
IsMalformed(tok) == tok.nfields # 2 \/ tok.pos < 0 \/ ~tok.ascii

NextIsMalformed ==
    /\ lpc = "loop" /\ cursor < Len(file)
    /\ IsMalformed(file[cursor + 1])

\* C18: a malformed token inserts nothing; it makes the process exit when the
\* file has fewer than two tokens and otherwise the loop goes on with the next
\* token; the process exits in no other case; and when the tokens are
\* exhausted, also with fewer than n distinct entries, the table built so far
\* is returned.
C18_MalformedTokens ==
    [][/\ NextIsMalformed =>
            /\ smap' = smap /\ i' = i
            /\ IF Len(file) < 2
               THEN lpc' = "exit"
               ELSE lpc' = "loop" /\ cursor' = cursor + 1
       /\ lpc' = "exit" => (Len(file) = 1 /\ IsMalformed(file[1]))
       /\ (lpc = "loop" /\ cursor = Len(file)) => (lpc' = "done" /\ smap' = smap)]_vars

\* C18 witness: a file of three tokens whose first is malformed has been
\* passed in full; two entries were loaded, fewer than n = 3, and returned.
C18_Witness ==
    /\ lpc = "done" /\ cursor = 3 /\ Len(file) = 3
    /\ IsMalformed(file[1])
    /\ n = 3 /\ i = 2
    /\ Cardinality(DOMAIN smap) = 2

\* C19: two distinct sites of the table never share a rank, a site that first
\* occurs in the file before another has the smaller rank, and once the first
\* token has been taken and is valid, its site has rank 1.
C19_RankFollowsFileOrder ==
    /\ \A x \in DOMAIN smap : \A y \in DOMAIN smap :
        /\ x # y => smap[x] # smap[y]
        /\ (x \in Entries /\ y \in Entries /\ FirstIndex(x) < FirstIndex(y)) => smap[x] < smap[y]
    /\ (cursor >= 1 /\ EntryAt(1) # None) =>
        /\ EntryAt(1)[1] \in DOMAIN smap
        /\ smap[EntryAt(1)[1]] = 1

\* C19 witness: three distinct sites have been loaded from a file of three
\* valid tokens.
C19_Witness ==
    /\ lpc = "done" /\ Len(file) = 3
    /\ Cardinality(DOMAIN smap) = 3
    /\ smap[EntryAt(1)[1]] = 1 /\ smap[EntryAt(2)[1]] = 2 /\ smap[EntryAt(3)[1]] = 3

\* C20 (as claimed): the indices resolve_cluster returns are pairwise distinct,
\* and the output is a subsequence of the input in which every input record
\* occurs at most once.
C20_NoRecordTwice ==
    /\ \A a \in 1..Len(sweep.selected) : \A b \in 1..Len(sweep.selected) :
        a # b => sweep.selected[a] # sweep.selected[b]
    /\ \A a \in 1..Len(output) :
        /\ output[a].line \in 1..Len(input)
        /\ output[a] = input[output[a].line]
    /\ \A a \in 1..Len(output) : \A b \in 1..Len(output) :
        a < b => output[a].line < output[b].line

(***************************************************************************)
(* Further properties of resolve_cluster (SpecCluster).                    *)
(***************************************************************************)
\* Index k of cluster cl is claimed by the anchor a: it comes after a and
\* conflicts with it.
ClaimedBy(cl, k, a) == a < k /\ are_conflicting(cl[a], cl[k])

AnchorSet(sw) == { sw.anchors[k] : k \in 1..Len(sw.anchors) }

\* C21: the first index is an anchor; the anchors are taken in increasing
\* order and none of them is claimed by an earlier anchor; every index is an
\* anchor or is claimed by an anchor; and one index is returned per anchor,
\* at least one and at most as many as the cluster has records.
C21_SweepBookkeeping ==
    pc = "resolved" =>
        LET anc == AnchorSet(sweep)
            cl  == sweep.cluster
        IN  /\ sweep.anchors[1] = 1
            /\ \A j \in 1..Len(sweep.anchors) : \A k \in (j + 1)..Len(sweep.anchors) :
                    /\ sweep.anchors[j] < sweep.anchors[k]
                    /\ ~ClaimedBy(cl, sweep.anchors[k], sweep.anchors[j])
            /\ \A k \in 1..Len(cl) :
                    LET claimed == \E a \in anc : ClaimedBy(cl, k, a)
                    IN  /\ k \in anc \/ claimed
                        /\ sweep.processed[k] <=> claimed
            /\ Len(Sort(sweep.selected)) = Len(sweep.anchors)
            /\ Len(sweep.anchors) >= 1
            /\ Len(sweep.anchors) <= Len(cl)

\* C21 witness: a cluster of three records was swept in which the second
\* record was claimed by the first and the third, conflicting with the second
\* but not with the first, became an anchor.
C21_Witness ==
    /\ pc = "resolved"
    /\ Len(sweep.cluster) = 3
    /\ sweep.anchors = <<1, 3>>
    /\ sweep.processed = <<FALSE, TRUE, FALSE>>
    /\ are_conflicting(sweep.cluster[2], sweep.cluster[3])

\* The cluster is a chain [A, B, C]: A conflicts with B, B with C, A not with C.
IsChain(cl) ==
    /\ Len(cl) = 3
    /\ are_conflicting(cl[1], cl[2])
    /\ are_conflicting(cl[2], cl[3])
    /\ ~are_conflicting(cl[1], cl[3])

\* C22: for a chain [A, B, C] resolve_cluster returns two indices: that of B
\* when B has a lower rank than A and that of A otherwise, and that of C,
\* whatever the rank of C.
C22_AnchorOnlyChain ==
    (pc = "resolved" /\ IsChain(cluster)) =>
        resolve_cluster(cluster, ranks) =
            << IF RankOf(cluster[2], ranks) < RankOf(cluster[1], ranks) THEN 2 ELSE 1, 3 >>

\* C22 witness: a chain was resolved in which B, better ranked than A, is the
\* survivor of the first group, and C, which conflicts with B, is returned too.
C22_Witness ==
    /\ pc = "resolved"
    /\ IsChain(sweep.cluster)
    /\ RankOf(sweep.cluster[2], ranks) < RankOf(sweep.cluster[1], ranks)
    /\ Sort(sweep.selected) = <<2, 3>>
    /\ Len(output) = 2

\* C23: the index selected for an anchor is the smallest index among the
\* members of the anchor's group that share the rank of the selected one; so
\* the anchor is selected when no member has a rank below its own, also when
\* all are unranked.
C23_TiesKeepEarliest ==
    pc = "resolved" =>
        \A k \in 1..Len(sweep.anchors) :
            LET a   == sweep.anchors[k]
                grp == Group(sweep.cluster, a)
                hi  == sweep.selected[k]
                rhi == RankOf(sweep.cluster[hi], ranks)
                ra  == RankOf(sweep.cluster[a], ranks)
            IN  /\ \A m \in grp : RankOf(sweep.cluster[m], ranks) = rhi => hi <= m
                /\ (\A m \in grp : RankOf(sweep.cluster[m], ranks) >= ra) => hi = a

\* C23 witness: an unranked anchor had two conflicting candidates of one and
\* the same rank, and the earlier of the two was selected.
C23_Witness ==
    /\ pc = "resolved"
    /\ Len(sweep.cluster) = 3
    /\ Group(sweep.cluster, 1) = {1, 2, 3}
    /\ RankOf(sweep.cluster[1], ranks) = UsizeMax
    /\ RankOf(sweep.cluster[2], ranks) = RankOf(sweep.cluster[3], ranks)
    /\ RankOf(sweep.cluster[2], ranks) < UsizeMax
    /\ sweep.selected = <<2>>

(***************************************************************************)
(* SpecFault: after an error-free run, resolve() runs on the same input    *)
(* with the same rank table, and a read (resolve.rs:248, 253) or a write   *)
(* (resolve.rs:203, 278, 283) of that run may return an error, which the   *)
(* `?` operator makes resolve() return.                                    *)
(***************************************************************************)
Replay ==
    /\ pc = "done" /\ run = 1
    /\ run' = 3
    /\ first_input' = input
    /\ first_output' = output
    /\ input' = <<>> /\ output' = <<>>
    /\ pre_record' = EmptyRecord /\ cur_record' = EmptyRecord /\ pre_range' = NoRange
    /\ cluster' = <<>>
    /\ pc' = "start"
    /\ UNCHANGED <<ranks, sweep, conflictVars, loadVars>>

\* ReadError writing the held record before it returns.
ReadErrorFlush ==
    /\ run = 3
    /\ pc \in {"start", "loop"}
    /\ pc' = "read_error"
    /\ output' = IF pc = "loop" THEN Append(output, pre_record) ELSE output
    /\ UNCHANGED <<ranks, input, pre_record, cur_record, pre_range, cluster, run, first_input, first_output, sweep, conflictVars, loadVars>>

\* resolve.rs:248 and 253: next_record returns Err.
ReadError ==
    /\ run = 3
    /\ pc \in {"start", "loop"}
    /\ pc' = "read_error"
    /\ UNCHANGED <<ranks, input, pre_record, cur_record, pre_range, cluster, output, run, first_input, first_output, sweep, conflictVars, loadVars>>

\* resolve.rs:253-258 and 277-278: a break with no pending cluster, and the
\* write of the held record returns Err.
WriteErrorSingle ==
    /\ run = 3
    /\ pc = "loop" /\ cluster = <<>>
    /\ \E rec \in Readable :
        /\ ~Joins(rec)
        /\ input' = Append(input, rec)
        /\ cur_record' = rec
    /\ pc' = "write_error"
    /\ UNCHANGED <<ranks, pre_record, pre_range, cluster, output, run, first_input, first_output, sweep, conflictVars, loadVars>>

\* resolve.rs:253-258, 269-275 and 202-204: a break with a pending cluster;
\* the first k selected records are written and the next write returns Err.
WriteErrorCluster ==
    /\ run = 3
    /\ pc = "loop" /\ cluster # <<>>
    /\ \E rec \in Readable :
        /\ ~Joins(rec)
        /\ input' = Append(input, rec)
        /\ cur_record' = rec
    /\ LET selected == resolve_cluster(cluster, ranks)
       IN  /\ \E k \in 0..(Len(selected) - 1) :
                output' = write_selected(output, cluster, SubSeq(selected, 1, k))
           /\ sweep' = [cluster |-> cluster] @@ Sweep(cluster, ranks)
    /\ pc' = "write_error"
    /\ UNCHANGED <<ranks, pre_record, pre_range, cluster, run, first_input, first_output, conflictVars, loadVars>>

\* resolve.rs:253 and 282-283: the end of the stream, and the write of the
\* held record returns Err.
WriteErrorEnd ==
    /\ run = 3
    /\ pc = "loop" /\ AtEnd
    /\ pc' = "write_error"
    /\ UNCHANGED <<ranks, input, pre_record, cur_record, pre_range, cluster, output, run, first_input, first_output, sweep, conflictVars, loadVars>>

NextFault ==
    \/ Next
    \/ Replay
    \/ ReadError
    \/ WriteErrorSingle
    \/ WriteErrorCluster
    \/ WriteErrorEnd

SpecFault == Init /\ [][NextFault]_vars


IsPrefix(a, b) == Len(a) <= Len(b) /\ SubSeq(b, 1, Len(a)) = a

Failed == pc \in {"read_error", "write_error"}

\* C24: when a read or a write returns an error, resolve() returns it at
\* once: a failed read writes nothing (the held record and the pending
\* cluster are not flushed), a failed write leaves the record it was writing
\* and everything after it unwritten, nothing is written after the return,
\* and the records written so far are a prefix of what the error-free run on
\* the same input writes.
C24_ErrorPropagation ==
    [][ /\ pc' = "read_error" =>
              /\ output' = output
              /\ pre_record' = pre_record /\ cluster' = cluster
        /\ pc' = "write_error" =>
              /\ IsPrefix(output, output')
              /\ Len(output') < Len(first_output)
              /\ \A k \in (Len(output) + 1)..Len(output') :
                    \E c \in 1..Len(cluster) : output'[k] = cluster[c]
        /\ pc' \in {"read_error", "write_error"} => IsPrefix(output', first_output)
        /\ Failed => UNCHANGED vars ]_vars

\* A write error in the middle of a cluster's block: one selected record of
\* the pending cluster is written, the next write fails, and the error-free
\* run writes at least one record more.
C24_Witness ==
    /\ pc = "write_error"
    /\ cluster # <<>>
    /\ output # <<>>
    /\ \E c \in 1..Len(cluster) : output[Len(output)] = cluster[c]
    /\ IsPrefix(output, first_output)
    /\ Len(first_output) > Len(output)


(***************************************************************************)
(* SpecSteps: resolve() on a given file with resolve_cluster taken one     *)
(* loop iteration at a time.  pc is "outer" at the test of the while loop  *)
(* (resolve.rs:53) and "inner" at the head of the for loop (resolve.rs:58);*)
(* sweep holds the locals of resolve_cluster.  The program is sequential:  *)
(* whenever a step is possible one is taken (WF_vars(NextSteps)).          *)
(***************************************************************************)
InitSteps ==
    /\ pc = "start"
    /\ ranks \in RankTables(ValidTokens \cup MalformedTokens, MaxRankTokens)
    /\ run = 0
    /\ first_output \in ExampleFiles(MaxFile)
    /\ first_input = <<>>
    /\ input = <<>> /\ output = <<>>
    /\ pre_record = EmptyRecord /\ cur_record = EmptyRecord /\ pre_range = NoRange
    /\ cluster = <<>>
    /\ sweep = [cluster |-> <<>>, processed |-> <<>>, selected |-> <<>>, anchors |-> <<>>,
                idx |-> 1, cur |-> 1, hi_idx |-> 1, hi_rank |-> UsizeMax]
    /\ IdleConflict /\ IdleLoad

\* resolve.rs:253-258, 269-274 and 38-52: a break with a pending cluster;
\* resolve_cluster is entered.
BreakClusterBegin ==
    /\ pc = "loop" /\ cluster # <<>>
    /\ \E rec \in Readable :
        /\ ~Joins(rec)
        /\ input' = Append(input, rec)
        /\ cur_record' = rec
    /\ sweep' = [cluster |-> cluster, processed |-> [k \in 1..Len(cluster) |-> FALSE],
                 selected |-> <<>>, anchors |-> <<>>,
                 idx |-> 1, cur |-> 1, hi_idx |-> 1, hi_rank |-> UsizeMax]
    /\ pc' = "outer"
    /\ UNCHANGED <<ranks, pre_record, pre_range, cluster, output, run, first_input, first_output, conflictVars, loadVars>>

\* resolve.rs:53-57 and 71: one test of the while loop that finds idx
\* inside the cluster.
SweepOuter ==
    /\ pc = "outer" /\ sweep.idx <= Len(cluster)
    /\ IF ~sweep.processed[sweep.idx]
       THEN /\ sweep' = [sweep EXCEPT !.hi_idx = sweep.idx,
                                      !.hi_rank = RankOf(cluster[sweep.idx], ranks),
                                      !.cur = sweep.idx + 1]
            /\ pc' = "inner"
       ELSE /\ sweep' = [sweep EXCEPT !.idx = sweep.idx + 1]
            /\ pc' = "outer"
    /\ UNCHANGED <<ranks, input, pre_record, cur_record, pre_range, cluster, output, run, first_input, first_output, conflictVars, loadVars>>

\* resolve.rs:58-68: one iteration of the for loop.
SweepInner ==
    /\ pc = "inner" /\ sweep.cur <= Len(cluster)
    /\ LET other_rank == RankOf(cluster[sweep.cur], ranks)
           claimed    == [sweep EXCEPT !.processed[sweep.cur] = TRUE, !.cur = sweep.cur + 1]
       IN  sweep' = IF are_conflicting(cluster[sweep.idx], cluster[sweep.cur])
                    THEN IF other_rank < sweep.hi_rank
                         THEN [claimed EXCEPT !.hi_rank = other_rank, !.hi_idx = sweep.cur]
                         ELSE claimed
                    ELSE [sweep EXCEPT !.cur = sweep.cur + 1]
    /\ UNCHANGED <<pc, ranks, input, pre_record, cur_record, pre_range, cluster, output, run, first_input, first_output, conflictVars, loadVars>>

\* resolve.rs:58 and 69-71: the for loop is exhausted, hi_idx is pushed.
SweepPush ==
    /\ pc = "inner" /\ sweep.cur > Len(cluster)
    /\ sweep' = [sweep EXCEPT !.selected = Append(sweep.selected, sweep.hi_idx),
                              !.anchors = Append(sweep.anchors, sweep.idx),
                              !.idx = sweep.idx + 1]
    /\ pc' = "outer"
    /\ UNCHANGED <<ranks, input, pre_record, cur_record, pre_range, cluster, output, run, first_input, first_output, conflictVars, loadVars>>

\* resolve.rs:53, 73-75 and 275-281: the while loop ends, the selection is
\* sorted, returned and written, and the record read becomes the held one.
SweepReturn ==
    /\ pc = "outer" /\ sweep.idx > Len(cluster)
    /\ output' = write_selected(output, cluster, Sort(sweep.selected))
    /\ cluster' = <<>>
    /\ pre_range' = site_ref_range(cur_record)
    /\ pre_record' = cur_record
    /\ cur_record' = pre_record
    /\ pc' = "loop"
    /\ UNCHANGED <<ranks, input, run, first_input, first_output, sweep, conflictVars, loadVars>>

NextSteps ==
    \/ FetchFirst
    \/ FetchNone
    \/ FetchJoin
    \/ BreakClusterBegin
    \/ SweepOuter
    \/ SweepInner
    \/ SweepPush
    \/ SweepReturn
    \/ FetchBreakSingle
    \/ FetchEnd

SpecSteps == InitSteps /\ [][NextSteps]_vars /\ WF_vars(NextSteps)

\* The records the reader has been asked for are the first records of the
\* file, each one once and in the file's order.
ReadInOrder ==
    /\ Len(input) <= Len(first_output)
    /\ \A k \in 1..Len(input) : input[k] = Stamp(first_output[k], k)

\* C25: on every finite file resolve() terminates, every call of
\* resolve_cluster inside it having terminated; it has then asked the
\* reader once for each record of the file, in order, and does nothing after
\* the first end-of-stream report; on the empty file it has written nothing.
C25_SinglePassTermination ==
    <>[]( /\ pc = "done"
          /\ ReadInOrder /\ Len(input) = Len(first_output)
          /\ (first_output = <<>> => output = <<>>) )

\* resolve() has returned after reading a file of three records in which the
\* first two formed a cluster: resolve_cluster ran to the end of both loops,
\* and its result is that of Sweep.
C25_Witness ==
    /\ pc = "done"
    /\ Len(first_output) = 3 /\ Len(input) = 3
    /\ Len(sweep.cluster) = 2 /\ sweep.idx = 3
    /\ [processed |-> sweep.processed, selected |-> sweep.selected, anchors |-> sweep.anchors]
         = Sweep(sweep.cluster, ranks)
    /\ output # <<>>

====
